---- MODULE Spec2Model ----
(***************************************************************************)
(* Workshop notebooks of Hyperspy_Workshop_2022, modelled as what a        *)
(* Jupyter kernel does when their code cells are run top to bottom.        *)
(*                                                                         *)
(*   atomic_models_with_ase        src/unnamed/part_000                    *)
(*   image_simulation_with_abtem   src/abtem/...completed.ipynb, 1..827    *)
(*   image_analysis                src/abtem/...completed.ipynb, 829..1513 *)
(*   pyxem data inspection         src/unnamed/part_001                    *)
(*   particlespy demo              src/particlespy_demo/...2022.ipynb      *)
(*                                                                         *)
(* Spec       one kernel session after another on a shared disk: the       *)
(*            atomic-models, image-simulation and pyxem notebooks.         *)
(* SpecBragg  the Bragg-filter cells of the image-analysis notebook.       *)
(* SpecBlob   the normalisation cell of the image-analysis notebook.       *)
(* SpecPs     the particlespy notebook (src/particlespy_demo) and the      *)
(*            parameters file ParticleSpy keeps between sessions.          *)
(* SpecCode   every notebook, statement by statement: the names bound.     *)
(***************************************************************************)
EXTENDS Integers, Sequences, FiniteSets, TLC

VARIABLES
    \* ---- the disk and the kernel
    files,            \* structure files present in the working directory
    nb,               \* notebook open in the kernel ("none" before the first)
    pc,               \* the statement the kernel runs next
    raised,           \* an exception has been raised in this session
    raisedAt,         \* the statement whose call raised
    snap,             \* the namespace as it was when the exception was raised
    atomsRan,         \* the atomic-models notebook has been run top to bottom
    atoms_cell,       \* index of the next code cell of the atomic-models notebook
    \* ---- kernel namespace of the image-simulation notebook
    bound,            \* names bound in the kernel namespace
    potential,        \* number of slices of `potential`
    slice_ix,         \* position of the iterator of `for potential_slice in potential`
    probe_wave,       \* slices the Waves object bound to probe_wave has passed
    probe_exit_wave,  \* slices the Waves object bound to probe_exit_wave has passed
    measurements,     \* [kind: "list" | "stacked", items: measurements]
    frozen_phonons,   \* [num_configs, seed] of the FrozenPhonons object
    exit_wave,        \* frozen phonon exit wave: one 2-pixel wave per configuration
    shape0,           \* exit_wave.array.shape[0] as displayed
    shown,            \* the pattern exit_wave.diffraction_pattern().mean(0) shows
    \* ---- kernel namespace and figures of the pyxem notebook
    roiGeom,          \* geometry held by the ROI objects line, roi, reg
    widgetGeom,       \* geometry of the widget drawn for each ROI
    widgets,          \* ROIs that have a widget on a figure
    picked,           \* trace, vdf, dpc: the geometry each was computed for
    \* ---- image-analysis notebook: Bragg filter
    bpc,              \* next cell of the Bragg-filter part
    shape,            \* image.shape
    coordinates,      \* peaks returned by peak_local_max, most intense first
    selected_coordinates,
    delta_mask,
    mask,
    f,                \* np.fft.fftshift(np.fft.fft2(image))
    filtered_hat,     \* np.fft.fft2(image) * np.fft.ifftshift(mask)
    \* ---- image-analysis notebook: blob normalisation
    npc,              \* next statement of the normalisation cell
    non_periodic,     \* non_periodic.real, flattened
    blob_image,
    \* ---- particlespy notebook and ParticleSpy's parameters_current.hdf5
    psSession,        \* kernel sessions of the particlespy notebook so far
    psFile,           \* parameters_current.hdf5: [segment, store_im, savedIn]
    ppc,              \* the statement the particlespy notebook runs next
    params,           \* the parameters object bound to params
    gui,              \* the window seg_ui opened: [open, segment]
    lastUpdate,       \* segment parameters saved by the last Update of this session
    analysed,         \* params.store['store_im'] at each particle_analysis call
    \* ---- every notebook, cell by cell: the names of the kernel namespace
    cnb,              \* notebook whose cells are being run
    cell,             \* index of the code cell being run
    stmt_ix,          \* index of the next statement of that cell
    namespace,        \* names bound in the kernel namespace
    nameError         \* a statement read a name that was not bound

kernelVars == <<files, nb, pc, raised, raisedAt, snap, atomsRan, atoms_cell>>
simNames == <<bound, potential, slice_ix, probe_wave, probe_exit_wave,
              measurements, frozen_phonons, exit_wave, shape0, shown>>
roiVars == <<roiGeom, widgetGeom, widgets, picked>>
braggVars == <<bpc, shape, coordinates, selected_coordinates, delta_mask, mask,
               f, filtered_hat>>
blobVars == <<npc, non_periodic, blob_image>>
psVars == <<psSession, psFile, ppc, params, gui, lastUpdate, analysed>>
codeVars == <<cnb, cell, stmt_ix, namespace, nameError>>
vars == <<kernelVars, simNames, roiVars, braggVars, blobVars, psVars,
          codeVars>>

\* The namespace a cell's statements bind: what a traceback leaves behind.
names == <<simNames, picked>>

(***************************************************************************)
(* Bounds                                                                  *)
(***************************************************************************)
MaxSlices == 3      \* slices of `potential`
MaxSeed == 2        \* random states of FrozenPhonons
MaxGeom == 2        \* geometries a widget can be dragged to, besides the constructor's
MaxN == 5           \* image.shape is within 1..MaxN on both axes
MaxPeaks == 8       \* peaks peak_local_max returns
MaxLen == 4         \* elements of non_periodic.real
MaxVal == 1         \* non_periodic.real holds values in -MaxVal..MaxVal
Ulp == 1000         \* fixed point: the float 1.0 is Ulp units, a rounding error 1 unit
MaxParam == 2        \* segmentation settings the GUI offers besides the default
MaxSessions == 2     \* kernel sessions of the particlespy notebook

(***************************************************************************)
(* The kernel: sessions, cells, exceptions                                 *)
(***************************************************************************)
\* The value of a name the kernel namespace does not hold, and the record
\* of a session in which Update was never pressed.
Unbound == [segment |-> -1, store_im |-> FALSE]
NoUpdate == [pressed |-> FALSE, segment |-> 0]

StructureFiles == {"my_atoms.cif", "cluster_on_carbon.cfg"}
Notebooks == {"atoms", "sim", "pyxem"}

\* The code cells of the atomic-models notebook, each the list of its
\* statements: the first imports the libraries, the other 22 have
\* "source": [] and so hold no statement.
NumAtomsCells == 23
AtomsCells == [i \in 1..NumAtomsCells |-> IF i = 1 THEN <<"import">> ELSE <<>>]

\* Files a statement of the atomic-models notebook writes.
Writes(stmt) == {}

RECURSIVE CellWrites(_)
CellWrites(stmts) ==
    IF stmts = <<>> THEN {}
    ELSE Writes(Head(stmts)) \cup CellWrites(Tail(stmts))

FirstStatement(n) ==
    CASE n = "atoms" -> "atoms"
      [] n = "sim" -> "read_atoms"
      [] n = "pyxem" -> "load_dp"

\* A fresh kernel: nothing bound.
FreshSim ==
    <<{}, 0, 0, <<>>, <<>>, [kind |-> "list", items |-> <<>>],
      [num_configs |-> 0, seed |-> 0], <<>>, 0, <<>>>>
FreshPicked == [trace |-> -1, vdf |-> -1, dpc |-> -1]
FreshRoi == [line |-> 0, roi |-> 0, reg |-> 0]

\* Where control goes when the call at statement p raises: no cell holds a
\* try statement, so the exception leaves the cell and the kernel prints
\* the traceback.
HandlerSwallowInLoop(p) ==
    IF p \in {"ts_multislice", "ts_append"} THEN "ts_for" ELSE "traceback"
Handler(p) == "traceback"

\* Statements that call into a library (and so may raise).
CanRaise ==
    /\ pc \notin {"ts_init", "done", "traceback"}
    /\ pc = "atoms" => AtomsCells[atoms_cell] # <<>>

StartSession(n) ==
    /\ nb = "none" \/ pc \in {"done", "traceback"}
    /\ nb' = n
    /\ pc' = FirstStatement(n)
    /\ raised' = FALSE
    /\ raisedAt' = "none"
    /\ bound' = {}
    /\ potential' = 0
    /\ slice_ix' = 0
    /\ probe_wave' = <<>>
    /\ probe_exit_wave' = <<>>
    /\ measurements' = [kind |-> "list", items |-> <<>>]
    /\ frozen_phonons' = [num_configs |-> 0, seed |-> 0]
    /\ exit_wave' = <<>>
    /\ shape0' = 0
    /\ shown' = <<>>
    /\ picked' = FreshPicked
    /\ snap' = <<FreshSim, FreshPicked>>
    /\ roiGeom' = FreshRoi
    /\ widgetGeom' = FreshRoi
    /\ widgets' = {}
    /\ atoms_cell' = 1
    /\ UNCHANGED <<files, atomsRan, braggVars, blobVars,
                psVars, codeVars>>

Raise ==
    /\ nb # "none"
    /\ CanRaise
    /\ raised' = TRUE
    /\ raisedAt' = pc
    /\ snap' = names
    /\ pc' = Handler(pc)
    /\ UNCHANGED <<files, nb, atomsRan, atoms_cell, simNames, roiVars,
                   braggVars, blobVars,
                psVars, codeVars>>

\* One code cell of the atomic-models notebook.
RunAtomsCell ==
    /\ nb = "atoms" /\ pc = "atoms"
    /\ files' = files \cup CellWrites(AtomsCells[atoms_cell])
    /\ IF atoms_cell = NumAtomsCells
         THEN pc' = "done" /\ atomsRan' = TRUE /\ UNCHANGED atoms_cell
         ELSE atoms_cell' = atoms_cell + 1 /\ UNCHANGED <<pc, atomsRan>>
    /\ UNCHANGED <<nb, raised, raisedAt, snap, simNames, roiVars,
                   braggVars, blobVars,
                psVars, codeVars>>

\* Frame of a statement of the image-simulation notebook.
SimFrame ==
    UNCHANGED <<files, nb, raised, raisedAt, snap, atomsRan, atoms_cell,
                roiVars, braggVars, blobVars,
                psVars, codeVars>>

(***************************************************************************)
(* image_simulation_with_abtem: the library calls the cells make           *)
(***************************************************************************)
\* A Waves object is modelled by the potential slices it has been
\* propagated through, in order. probe.build(positions = position) is a
\* probe that has passed none.
Build == <<>>

\* waves.multislice(potential_slice) on a static potential propagates the
\* receiver itself (abTEM 1.0.0beta: _multislice(self, ...) transmits and
\* propagates self.array in place) and returns it.
MultisliceReceiverUntouched(w, s) == w
MultisliceReceiver(w, s) == Append(w, s)
MultisliceResult(w, s) == Append(w, s)

\* waves.diffraction_pattern(): a new measurement computed from the wave as
\* it is at the call.
DiffractionPattern(w) == [of |-> w]

\* The slice the for-loop hands out after `ix` slices: the next one.
NextSliceSkip(ix) == ix + 2
NextSlice(ix) == ix + 1

\* ab.measure.stack_measurements(list): the measurements along a new first
\* axis, in list order.
StackMeasurements(items) == [kind |-> "stacked", items |-> items]

\* atoms = ase.io.read('my_atoms.cif')
ReadAtoms ==
    /\ nb = "sim" /\ pc = "read_atoms"
    /\ "my_atoms.cif" \in files
    /\ bound' = bound \cup {"atoms"}
    /\ pc' = "potential"
    /\ UNCHANGED <<potential, slice_ix, probe_wave, probe_exit_wave,
                   measurements, frozen_phonons, exit_wave, shape0, shown>>
    /\ SimFrame /\ UNCHANGED picked

\* potential = ab.Potential(atoms, sampling = .05, slice_thickness = 2):
\* the number of slices follows from the cell of the structure read.
MakePotential ==
    /\ nb = "sim" /\ pc = "potential"
    /\ \E n \in 1..MaxSlices : potential' = n
    /\ bound' = bound \cup {"potential"}
    /\ pc' = "ts_init"
    /\ UNCHANGED <<slice_ix, probe_wave, probe_exit_wave, measurements,
                   frozen_phonons, exit_wave, shape0, shown>>
    /\ SimFrame /\ UNCHANGED picked

\* measurements = []
TsInit ==
    /\ nb = "sim" /\ pc = "ts_init"
    /\ measurements' = [kind |-> "list", items |-> <<>>]
    /\ bound' = bound \cup {"measurements"}
    /\ pc' = "ts_build"
    /\ UNCHANGED <<potential, slice_ix, probe_wave, probe_exit_wave,
                   frozen_phonons, exit_wave, shape0, shown>>
    /\ SimFrame /\ UNCHANGED picked

\* probe_wave = probe.build(positions = position)
TsBuild ==
    /\ nb = "sim" /\ pc = "ts_build"
    /\ probe_wave' = Build
    /\ bound' = bound \cup {"probe_wave"}
    /\ slice_ix' = 0
    /\ pc' = "ts_for"
    /\ UNCHANGED <<potential, probe_exit_wave, measurements,
                   frozen_phonons, exit_wave, shape0, shown>>
    /\ SimFrame /\ UNCHANGED picked

\* for potential_slice in potential: the next slice, or the loop ends
TsFor ==
    /\ nb = "sim" /\ pc = "ts_for"
    /\ IF slice_ix < potential
         THEN /\ slice_ix' = NextSlice(slice_ix)
              /\ bound' = bound \cup {"potential_slice"}
              /\ pc' = "ts_multislice"
         ELSE /\ pc' = "ts_stack"
              /\ UNCHANGED <<slice_ix, bound>>
    /\ UNCHANGED <<potential, probe_wave, probe_exit_wave, measurements,
                   frozen_phonons, exit_wave, shape0, shown>>
    /\ SimFrame /\ UNCHANGED picked

\* probe_exit_wave = probe_wave.multislice(potential_slice, pbar=False)
TsMultislice ==
    /\ nb = "sim" /\ pc = "ts_multislice"
    /\ probe_wave' = MultisliceReceiver(probe_wave, slice_ix)
    /\ probe_exit_wave' = MultisliceResult(probe_wave, slice_ix)
    /\ bound' = bound \cup {"probe_exit_wave"}
    /\ pc' = "ts_append"
    /\ UNCHANGED <<potential, slice_ix, measurements,
                   frozen_phonons, exit_wave, shape0, shown>>
    /\ SimFrame /\ UNCHANGED picked

\* measurements.append(probe_exit_wave.diffraction_pattern())
TsAppend ==
    /\ nb = "sim" /\ pc = "ts_append"
    /\ measurements' = [measurements EXCEPT
           !.items = Append(@, DiffractionPattern(probe_exit_wave))]
    /\ pc' = "ts_for"
    /\ UNCHANGED <<bound, potential, slice_ix, probe_wave, probe_exit_wave,
                   frozen_phonons, exit_wave, shape0, shown>>
    /\ SimFrame /\ UNCHANGED picked

\* measurements = ab.measure.stack_measurements(measurements)
TsStack ==
    /\ nb = "sim" /\ pc = "ts_stack"
    /\ measurements' = StackMeasurements(measurements.items)
    /\ pc' = "fp_create"
    /\ UNCHANGED <<bound, potential, slice_ix, probe_wave, probe_exit_wave,
                   frozen_phonons, exit_wave, shape0, shown>>
    /\ SimFrame /\ UNCHANGED picked

(***************************************************************************)
(* Frozen phonons                                                          *)
(***************************************************************************)
num_configs == 32

\* Complex numbers are pairs <<re, im>>; a wave is its value at two pixels.
CAdd(a, b) == <<a[1] + b[1], a[2] + b[2]>>
CSub(a, b) == <<a[1] - b[1], a[2] - b[2]>>
Abs2(a) == a[1] * a[1] + a[2] * a[2]

\* The displacement FrozenPhonons draws for configuration i from its random
\* state, as a quarter-turn count of the phase the displaced atoms imprint.
Displacement(seed, i) == (seed * i) % 4

\* The exit wave of one configuration: unit amplitude at both pixels, the
\* second one phase-shifted by the displaced atoms.
ExitWaveOf(d) ==
    << <<1, 0>>,
       CASE d = 0 -> <<1, 0>> [] d = 1 -> <<0, 1>>
         [] d = 2 -> <<-1, 0>> [] d = 3 -> <<0, -1>> >>

\* multislice on a potential with more than one configuration: one exit
\* wave per configuration, stacked along a new first axis.
MultisliceFrozen(fp) ==
    [i \in 1..fp.num_configs |-> ExitWaveOf(Displacement(fp.seed, i))]

\* The 2-point discrete Fourier transform of a wave.
Fft(w) == <<CAdd(w[1], w[2]), CSub(w[1], w[2])>>

\* Waves.diffraction_pattern(): |FFT|^2 of every wave of the stack.
DiffractionPatterns(arr) ==
    [i \in 1..Len(arr) |-> [k \in 1..2 |-> Abs2(Fft(arr[i])[k])]]

RECURSIVE SumAxis0(_, _, _)
SumAxis0(stack, k, n) ==
    IF n = 0 THEN 0 ELSE stack[n][k] + SumAxis0(stack, k, n - 1)

\* Measurement.mean(0): the mean along the first axis, as the fraction
\* num / den.
Mean0(stack) ==
    [k \in 1..2 |-> [num |-> SumAxis0(stack, k, Len(stack)), den |-> Len(stack)]]

RECURSIVE CSumAxis0(_, _, _)
CSumAxis0(arr, k, n) ==
    IF n = 0 THEN <<0, 0>> ELSE CAdd(arr[n][k], CSumAxis0(arr, k, n - 1))

\* exit_wave.diffraction_pattern().mean(0)
ShownPatternOfMeanWave(arr) ==
    LET m == <<CSumAxis0(arr, 1, Len(arr)), CSumAxis0(arr, 2, Len(arr))>>
    IN  [k \in 1..2 |-> [num |-> Abs2(Fft(m)[k]), den |-> Len(arr) * Len(arr)]]
ShownPattern(arr) == Mean0(DiffractionPatterns(arr))

\* frozen_phonons = ab.FrozenPhonons(atoms, sigmas=.1, num_configs=32)
FpCreate ==
    /\ nb = "sim" /\ pc = "fp_create"
    /\ \E s \in 0..MaxSeed :
         frozen_phonons' = [num_configs |-> num_configs, seed |-> s]
    /\ bound' = bound \cup {"frozen_phonons"}
    /\ pc' = "fp_multislice"
    /\ UNCHANGED <<potential, slice_ix, probe_wave, probe_exit_wave,
                   measurements, exit_wave, shape0, shown>>
    /\ SimFrame /\ UNCHANGED picked

\* exit_wave = frozen_phonon_probe.build(positions = (4, 4))
\*                 .multislice(potential=frozen_phonon_potential)
FpMultislice ==
    /\ nb = "sim" /\ pc = "fp_multislice"
    /\ exit_wave' = MultisliceFrozen(frozen_phonons)
    /\ bound' = bound \cup {"exit_wave"}
    /\ pc' = "fp_shape"
    /\ UNCHANGED <<potential, slice_ix, probe_wave, probe_exit_wave,
                   measurements, frozen_phonons, shape0, shown>>
    /\ SimFrame /\ UNCHANGED picked

\* exit_wave.array.shape
FpShape ==
    /\ nb = "sim" /\ pc = "fp_shape"
    /\ shape0' = Len(exit_wave)
    /\ pc' = "fp_mean"
    /\ UNCHANGED <<bound, potential, slice_ix, probe_wave, probe_exit_wave,
                   measurements, frozen_phonons, exit_wave, shown>>
    /\ SimFrame /\ UNCHANGED picked

\* exit_wave.diffraction_pattern().mean(0).show();
FpMean ==
    /\ nb = "sim" /\ pc = "fp_mean"
    /\ shown' = ShownPattern(exit_wave)
    /\ pc' = "read_cluster"
    /\ UNCHANGED <<bound, potential, slice_ix, probe_wave, probe_exit_wave,
                   measurements, frozen_phonons, exit_wave, shape0>>
    /\ SimFrame /\ UNCHANGED picked

\* cluster = read('cluster_on_carbon.cfg')
ReadCluster ==
    /\ nb = "sim" /\ pc = "read_cluster"
    /\ "cluster_on_carbon.cfg" \in files
    /\ bound' = bound \cup {"cluster"}
    /\ pc' = "done"
    /\ UNCHANGED <<potential, slice_ix, probe_wave, probe_exit_wave,
                   measurements, frozen_phonons, exit_wave, shape0, shown>>
    /\ SimFrame /\ UNCHANGED picked

(***************************************************************************)
(* pyxem notebook: regions of interest                                     *)
(***************************************************************************)
\* A geometry is a number: 0 is the one the constructor's arguments give,
\* 1..MaxGeom are the ones the user can drag or resize a widget to.
Geoms == 0..MaxGeom
Rois == {"line", "roi", "reg"}

\* The ROI's parameters after its widget reports the geometry g: hyperspy
\* connects the widget's changed event to the ROI, which takes g over.
OnWidgetChangedIgnored(old, g) == old
OnWidgetChanged(old, g) == g

\* The geometry roi(signal) and get_integrated_intensity(roi) slice with:
\* the ROI's parameters as they are at the call.
RoiCallCtor(geom) == 0
RoiCall(geom) == geom

PyxemFrame ==
    UNCHANGED <<files, nb, raised, raisedAt, snap, atomsRan, atoms_cell,
                potential, slice_ix, probe_wave, probe_exit_wave,
                measurements, frozen_phonons, exit_wave, shape0, shown,
                braggVars, blobVars,
                psVars, codeVars>>

\* dp = hs.load('./01/twinned_nanowire.hdf5')
LoadDp ==
    /\ nb = "pyxem" /\ pc = "load_dp"
    /\ bound' = bound \cup {"dp"}
    /\ pc' = "line_cell"
    /\ UNCHANGED roiVars /\ PyxemFrame

\* A cell that makes an ROI (if it does) and puts its widget on a figure.
\*   line_cell        dpm = dp.mean((0,1)); dpm.plot(...);
\*                    line = hs.roi.Line2DROI(...); line.add_widget(dpm)
\*   circle_new       roi = hs.roi.CircleROI(cx=0.,cy=0, r_inner=0, r=0.07)
\*   plot_integrated  dp.plot_integrated_intensity(roi)
\*   rect_cell        reg = hs.roi.RectangularROI(...); dp.plot(...);
\*                    reg.add_widget(dp)
NewRoi(at, r, next) ==
    /\ nb = "pyxem" /\ pc = at
    /\ roiGeom' = [roiGeom EXCEPT ![r] = 0]
    /\ bound' = bound \cup {r}
    /\ pc' = next
    /\ UNCHANGED <<widgetGeom, widgets, picked>> /\ PyxemFrame

AddWidget(at, r, next) ==
    /\ nb = "pyxem" /\ pc = at
    /\ widgets' = widgets \cup {r}
    /\ widgetGeom' = [widgetGeom EXCEPT ![r] = roiGeom[r]]
    /\ pc' = next
    /\ UNCHANGED <<roiGeom, picked, bound>> /\ PyxemFrame

LineCell ==
    /\ nb = "pyxem" /\ pc = "line_cell"
    /\ roiGeom' = [roiGeom EXCEPT !["line"] = 0]
    /\ widgets' = widgets \cup {"line"}
    /\ widgetGeom' = [widgetGeom EXCEPT !["line"] = 0]
    /\ bound' = bound \cup {"dpm", "line"}
    /\ pc' = "trace_cell"
    /\ UNCHANGED picked /\ PyxemFrame

CircleNew == NewRoi("circle_new", "roi", "plot_integrated")

PlotIntegrated == AddWidget("plot_integrated", "roi", "get_integrated")

RectCell ==
    /\ nb = "pyxem" /\ pc = "rect_cell"
    /\ roiGeom' = [roiGeom EXCEPT !["reg"] = 0]
    /\ widgets' = widgets \cup {"reg"}
    /\ widgetGeom' = [widgetGeom EXCEPT !["reg"] = 0]
    /\ bound' = bound \cup {"reg"}
    /\ pc' = "crop_cell"
    /\ UNCHANGED picked /\ PyxemFrame

\* A cell that applies an ROI to a signal.
\*   trace_cell      trace = line(dpm); trace.plot()
\*   get_integrated  vdf = dp.get_integrated_intensity(roi)
\*   crop_cell       dpc = reg(dp)
Apply(at, r, name, next) ==
    /\ nb = "pyxem" /\ pc = at
    /\ picked' = [picked EXCEPT ![name] = RoiCall(roiGeom[r])]
    /\ bound' = bound \cup {name}
    /\ pc' = next
    /\ UNCHANGED <<roiGeom, widgetGeom, widgets>> /\ PyxemFrame

TraceCell == Apply("trace_cell", "line", "trace", "circle_new")
GetIntegrated == Apply("get_integrated", "roi", "vdf", "rect_cell")
CropCell == Apply("crop_cell", "reg", "dpc", "done")

\* The user drags or resizes the widget of ROI r to geometry g.
Drag(r, g) ==
    /\ nb = "pyxem"
    /\ r \in widgets
    /\ widgetGeom' = [widgetGeom EXCEPT ![r] = g]
    /\ roiGeom' = [roiGeom EXCEPT ![r] = OnWidgetChanged(@, g)]
    /\ UNCHANGED <<pc, bound, widgets, picked>> /\ PyxemFrame

(***************************************************************************)
(* Sessions of the kernel                                                  *)
(***************************************************************************)
\* The particlespy notebook has not been opened; parameters_current.hdf5
\* holds the default segmentation.
PsIdle ==
    /\ psSession = 0
    /\ psFile = [segment |-> 0, store_im |-> FALSE, savedIn |-> 0]
    /\ ppc = "off" /\ params = Unbound
    /\ gui = [open |-> FALSE, segment |-> 0]
    /\ lastUpdate = NoUpdate /\ analysed = <<>>

CodeIdle ==
    /\ cnb = "none" /\ cell = 1 /\ stmt_ix = 1 /\ namespace = {}
    /\ nameError = FALSE

BraggIdle ==
    /\ bpc = "off" /\ shape = <<0, 0>> /\ coordinates = <<>>
    /\ selected_coordinates = <<>> /\ delta_mask = <<>> /\ mask = <<>>
    /\ f = <<>> /\ filtered_hat = <<>>

BlobIdle == npc = "off" /\ non_periodic = <<>> /\ blob_image = <<>>

KernelIdle ==
    /\ nb = "none" /\ pc = "done" /\ raised = FALSE /\ raisedAt = "none"
    /\ snap = <<FreshSim, FreshPicked>>
    /\ atomsRan = FALSE /\ atoms_cell = 1
    /\ bound = {} /\ potential = 0 /\ slice_ix = 0
    /\ probe_wave = <<>> /\ probe_exit_wave = <<>>
    /\ measurements = [kind |-> "list", items |-> <<>>]
    /\ frozen_phonons = [num_configs |-> 0, seed |-> 0]
    /\ exit_wave = <<>> /\ shape0 = 0 /\ shown = <<>>
    /\ roiGeom = FreshRoi /\ widgetGeom = FreshRoi /\ widgets = {}
    /\ picked = FreshPicked

Init ==
    /\ files \in SUBSET StructureFiles
    /\ KernelIdle
    /\ BraggIdle
    /\ BlobIdle
    /\ PsIdle
    /\ CodeIdle

Next ==
    \/ \E n \in Notebooks : StartSession(n)
    \/ Raise
    \/ RunAtomsCell
    \/ ReadAtoms \/ MakePotential
    \/ TsInit \/ TsBuild \/ TsFor \/ TsMultislice \/ TsAppend \/ TsStack
    \/ FpCreate \/ FpMultislice \/ FpShape \/ FpMean
    \/ ReadCluster
    \/ LoadDp \/ LineCell \/ TraceCell
    \/ CircleNew \/ PlotIntegrated \/ GetIntegrated
    \/ RectCell \/ CropCell
    \/ \E r \in Rois, g \in Geoms : Drag(r, g)

Spec == Init /\ [][Next]_vars

(***************************************************************************)
(* Claims checked under Spec                                               *)
(***************************************************************************)
LoopStatements == {"ts_for", "ts_multislice", "ts_append"}

\* Iterations of the thickness-series loop that ran to their end before the
\* call at statement p raised.
CompletedIterations(p) == IF p = "ts_for" THEN slice_ix ELSE slice_ix - 1

\* C1: an exception raised by a library call is not caught: the kernel is at
\* the traceback, no later statement has run, every name still has the value
\* it had when the call raised; in the thickness-series loop the measurements
\* appended so far are still a list (stack_measurements was not called), one
\* per completed iteration; a failed hs.load leaves dp unbound.
C1_NoRecovery ==
    raised =>
        /\ pc = "traceback"
        /\ names = snap
        /\ raisedAt \in LoopStatements =>
              /\ measurements.kind = "list"
              /\ Len(measurements.items) = CompletedIterations(raisedAt)
        /\ raisedAt = "load_dp" => "dp" \notin bound

C1_Witness ==
    /\ raised /\ raisedAt = "ts_multislice"
    /\ Len(measurements.items) >= 1

\* C2: once the atomic-models notebook has been run top to bottom, both
\* structure files the image-simulation notebook reads are on disk.
C2_StructureFilesWritten == atomsRan => StructureFiles \subseteq files

C4_OnePerSlice ==
    measurements.kind = "stacked" =>
        /\ Len(measurements.items) = potential
        /\ \A i \in 1..Len(measurements.items) :
              LET w == measurements.items[i].of
              IN  Len(w) >= 1 /\ w[Len(w)] = i
        /\ \A i, j \in 1..Len(measurements.items) :
              measurements.items[i] = measurements.items[j] => i = j

C4_Witness == measurements.kind = "stacked" /\ Len(measurements.items) >= 2

\* Sum over the configurations 1..n of the intensity of Fourier component k
\* of the configuration's exit wave, written out for two pixels.
RECURSIVE IncoherentSum(_, _)
IncoherentSum(k, n) ==
    IF n = 0 THEN 0
    ELSE LET a == exit_wave[n][1]
             b == exit_wave[n][2]
             re == IF k = 1 THEN a[1] + b[1] ELSE a[1] - b[1]
             im == IF k = 1 THEN a[2] + b[2] ELSE a[2] - b[2]
         IN  re * re + im * im + IncoherentSum(k, n - 1)

\* C5: the frozen phonon exit wave has 32 configurations along its first
\* axis, and the pattern shown is the mean over them of the intensity of
\* each configuration (not the intensity of a mean wave).
C5_IncoherentMean ==
    shown # <<>> =>
        /\ shape0 = 32
        /\ Len(exit_wave) = 32
        /\ \A k \in 1..2 :
              shown[k].num * 32 = IncoherentSum(k, 32) * shown[k].den

C5_Witness == shown # <<>> /\ frozen_phonons.seed = 1

Min(a, b) == IF a < b THEN a ELSE b
Max(a, b) == IF a > b THEN a ELSE b

Rows(sh) == 0..(sh[1] - 1)
Cols(sh) == 0..(sh[2] - 1)

\* np.fft.fft2(image): coefficient <<i, j>> at index [i][j].
Fft2(sh) == [i \in Rows(sh) |-> [j \in Cols(sh) |-> <<i, j>>]]

\* np.roll along one axis of length n: the element at k moves to k + by.
Roll(x, n, by) == [k \in 0..(n - 1) |-> x[(k - by) % n]]

\* np.fft.fftshift rolls every axis by n // 2, np.fft.ifftshift by -(n // 2).
FftShiftBy(n) == n \div 2
IfftShiftByForward(n) == n \div 2
IfftShiftBy(n) == -(n \div 2)

FftShift2(x, sh) ==
    LET r == Roll(x, sh[1], FftShiftBy(sh[1]))
    IN  [i \in Rows(sh) |-> Roll(r[i], sh[2], FftShiftBy(sh[2]))]
IfftShift2(x, sh) ==
    LET r == Roll(x, sh[1], IfftShiftBy(sh[1]))
    IN  [i \in Rows(sh) |-> Roll(r[i], sh[2], IfftShiftBy(sh[2]))]

\* Pixel number idx of the row-major order, as <<row, column>>.
Pixel(idx, sh) == <<idx \div sh[2], idx % sh[2]>>

\* The peak lists drawn for peak_local_max: n distinct pixels, most intense
\* first, in row-major order from pixel `off` on (wrapping around).
Peaks(sh, n, off) ==
    [k \in 1..n |-> Pixel((off + k - 1) % (sh[1] * sh[2]), sh)]

\* Python's seq[start:stop] for 0 <= start <= stop.
PySlice(seq, start, stop) ==
    SubSeq(seq, Min(start, Len(seq)) + 1, Min(stop, Len(seq)))

\* selected_coordinates = coordinates[1:7]
SelectCoordinatesFromZero(c) == PySlice(c, 0, 6)
SelectCoordinates(c) == PySlice(c, 1, 7)

InSeq(seq, x) == \E k \in 1..Len(seq) : seq[k] = x

\* delta_mask = np.zeros_like(f, dtype=float)
\* delta_mask[selected_coordinates[:,0], selected_coordinates[:,1]] = 1
DeltaMask(sh, sel) ==
    [i \in Rows(sh) |-> [j \in Cols(sh) |->
        IF InSeq(sel, <<i, j>>) THEN 1 ELSE 0]]

\* skimage.morphology.disk(4): 1 where the offset from the centre of the
\* 9 x 9 array is within the radius, 0 elsewhere; indices 0..8.
DiskRadius == 4
Disk(a, b) ==
    IF /\ a \in 0..(2 * DiskRadius) /\ b \in 0..(2 * DiskRadius)
       /\ (a - DiskRadius) * (a - DiskRadius)
            + (b - DiskRadius) * (b - DiskRadius) <= DiskRadius * DiskRadius
    THEN 1 ELSE 0

RECURSIVE SumCols(_, _, _, _, _)
SumCols(d, sh, i, j, p) ==
    IF j < 0 THEN 0
    ELSE d[i][j] * Disk(p[1] - i, p[2] - j) + SumCols(d, sh, i, j - 1, p)

RECURSIVE SumRows(_, _, _, _)
SumRows(d, sh, i, p) ==
    IF i < 0 THEN 0
    ELSE SumCols(d, sh, i, sh[2] - 1, p) + SumRows(d, sh, i - 1, p)

\* Element p of the full linear convolution of d with the disk:
\* the sum over <<i, j>> of d[i][j] * disk[p - <<i, j>>].
FullConvolve(d, sh, p) == SumRows(d, sh, sh[1] - 1, p)

\* mode='same': the part of the full convolution that has the shape of d,
\* centred, which starts (9 - 1) // 2 elements in.
SameConvolve(d, sh) ==
    [i \in Rows(sh) |-> [j \in Cols(sh) |->
        FullConvolve(d, sh, <<i + DiskRadius, j + DiskRadius>>)]]

\* The rounding errors drawn for scipy.signal.fftconvolve, which computes
\* the convolution with floating-point FFTs: none, or one unit at the first
\* or the last pixel; an all-zero input transforms to exact zeros.
RoundingErrors(sh, sel) ==
    {[p |-> <<0, 0>>, e |-> 0]} \cup
    IF sel = <<>> THEN {}
    ELSE {[p |-> p, e |-> e] :
              p \in {<<0, 0>>, <<sh[1] - 1, sh[2] - 1>>}, e \in {-1, 1}}

\* The floating-point result for the exact one, in units of 1/Ulp.
Rounded(exact, sh, err) ==
    [i \in Rows(sh) |-> [j \in Cols(sh) |->
        Ulp * exact[i][j] + (IF err.p = <<i, j>> THEN err.e ELSE 0)]]

\* np.fft.fft2(image) * np.fft.ifftshift(mask), element by element: each
\* product is kept as <<coefficient, factor>>.
Multiply(x, y, sh) ==
    [i \in Rows(sh) |-> [j \in Cols(sh) |-> <<x[i][j], y[i][j]>>]]

BraggFrame ==
    UNCHANGED <<kernelVars, simNames, roiVars, blobVars,
                psVars, codeVars>>

\* f = np.fft.fftshift(np.fft.fft2(image * hanning_window))
FftCell ==
    /\ bpc = "fft"
    /\ f' = FftShift2(Fft2(shape), shape)
    /\ bpc' = "peaks"
    /\ UNCHANGED <<shape, coordinates, selected_coordinates, delta_mask,
                   mask, filtered_hat>>
    /\ BraggFrame

\* coordinates = skimage.feature.peak_local_max(np.abs(f), min_distance=10)
PeaksCell ==
    /\ bpc = "peaks"
    /\ \E n \in 0..Min(MaxPeaks, shape[1] * shape[2]),
          off \in 0..(shape[1] * shape[2] - 1) :
         coordinates' = Peaks(shape, n, off)
    /\ bpc' = "select"
    /\ UNCHANGED <<shape, selected_coordinates, delta_mask, mask, f,
                   filtered_hat>>
    /\ BraggFrame

SelectCell ==
    /\ bpc = "select"
    /\ selected_coordinates' = SelectCoordinates(coordinates)
    /\ bpc' = "delta"
    /\ UNCHANGED <<shape, coordinates, delta_mask, mask, f, filtered_hat>>
    /\ BraggFrame

DeltaCell ==
    /\ bpc = "delta"
    /\ delta_mask' = DeltaMask(shape, selected_coordinates)
    /\ bpc' = "convolve"
    /\ UNCHANGED <<shape, coordinates, selected_coordinates, mask, f,
                   filtered_hat>>
    /\ BraggFrame

\* mask = scipy.signal.fftconvolve(delta_mask, disk, mode='same')
ConvolveCell ==
    /\ bpc = "convolve"
    /\ LET exact == SameConvolve(delta_mask, shape)
       IN  \E err \in RoundingErrors(shape, selected_coordinates) :
               mask' = Rounded(exact, shape, err)
    /\ bpc' = "filter"
    /\ UNCHANGED <<shape, coordinates, selected_coordinates, delta_mask, f,
                   filtered_hat>>
    /\ BraggFrame

\* filtered = np.fft.ifft2(np.fft.fft2(image) * np.fft.ifftshift(mask))
FilterCell ==
    /\ bpc = "filter"
    /\ filtered_hat' = Multiply(Fft2(shape), IfftShift2(mask, shape), shape)
    /\ bpc' = "done"
    /\ UNCHANGED <<shape, coordinates, selected_coordinates, delta_mask,
                   mask, f>>
    /\ BraggFrame

InitBragg ==
    /\ files = {}
    /\ KernelIdle
    /\ BlobIdle
    /\ PsIdle
    /\ CodeIdle
    /\ bpc = "fft"
    /\ shape \in (1..MaxN) \X (1..MaxN)
    /\ coordinates = <<>> /\ selected_coordinates = <<>>
    /\ delta_mask = <<>> /\ mask = <<>> /\ f = <<>> /\ filtered_hat = <<>>

NextBragg ==
    \/ FftCell \/ PeaksCell \/ SelectCell \/ DeltaCell \/ ConvolveCell
    \/ FilterCell

SpecBragg == InitBragg /\ [][NextBragg]_vars

(***************************************************************************)
(* Claims checked under SpecBragg                                          *)
(***************************************************************************)
Selected == bpc \in {"delta", "convolve", "filter", "done"}
Masked == bpc \in {"filter", "done"}

\* Pixel <<i, j>> lies within the radius of a selected coordinate.
InSomeDisk(i, j) ==
    \E k \in 1..Len(selected_coordinates) :
        LET c == selected_coordinates[k]
        IN  (i - c[1]) * (i - c[1]) + (j - c[2]) * (j - c[2]) <= 16

FreqOf(k, n) == IF 2 * k < n THEN k ELSE k - n
ShiftedIndex(fr, n) == fr + n \div 2

\* C7: the array handed to ifft2 holds, at every index, the coefficient of
\* fft2(image) times the value the (shifted) mask has at the coefficient's
\* own frequency; and ifftshift undoes fftshift on odd and even axes alike.
C7_SameFrequency ==
    bpc = "done" =>
        /\ \A i \in Rows(shape), j \in Cols(shape) :
              filtered_hat[i][j] =
                  << <<i, j>>,
                     mask[ShiftedIndex(FreqOf(i, shape[1]), shape[1])]
                         [ShiftedIndex(FreqOf(j, shape[2]), shape[2])] >>
        /\ IfftShift2(f, shape) = Fft2(shape)

C7_Witness ==
    /\ bpc = "done"
    /\ shape[1] % 2 = 1 /\ shape[1] >= 3 /\ shape[2] % 2 = 0
    /\ \E i \in Rows(shape), j \in Cols(shape) : mask[i][j] = 0
    /\ \E i \in Rows(shape), j \in Cols(shape) : mask[i][j] >= Ulp - 1

\* C9 as claimed: selected_coordinates holds exactly six peaks, those at
\* indices 1..6 of coordinates.
C9_ExactlySix ==
    Selected =>
        /\ Len(selected_coordinates) = 6
        /\ \A k \in 1..6 : selected_coordinates[k] = coordinates[k + 1]

\* C9 as amended: selected_coordinates leaves out the most intense peak and
\* holds the peaks at indices 1..min(6, n-1) of the n detected, in order:
\* six when n >= 7, n - 1 when 1 <= n < 7, none when n = 0.
C9_UpToSix ==
    Selected =>
        LET n == Len(coordinates)
        IN  /\ Len(selected_coordinates) = Max(0, Min(n, 7) - 1)
            /\ n >= 7 => Len(selected_coordinates) = 6
            /\ \A k \in 1..Len(selected_coordinates) :
                  selected_coordinates[k] = coordinates[k + 1]

C9_Witness ==
    /\ Selected
    /\ Len(coordinates) = 8
    /\ Len(selected_coordinates) = 6
    /\ ~InSeq(selected_coordinates, coordinates[1])
    /\ ~InSeq(selected_coordinates, coordinates[8])

(***************************************************************************)
(* image_analysis: normalisation of the blob image                         *)
(*                                                                         *)
(* non_periodic.real is modelled flattened, with integer values; a         *)
(* quotient of two floats is kept as the fraction num / den, or as what    *)
(* IEEE division gives for a zero divisor.                                 *)
(***************************************************************************)
RECURSIVE ArrayMin(_)
ArrayMin(a) ==
    IF Len(a) = 1 THEN a[1] ELSE Min(Head(a), ArrayMin(Tail(a)))

RECURSIVE ArrayMax(_)
ArrayMax(a) ==
    IF Len(a) = 1 THEN a[1] ELSE Max(Head(a), ArrayMax(Tail(a)))

\* ndarray.ptp(): the range of values, maximum - minimum.
PtpIsMaximum(a) == ArrayMax(a)
Ptp(a) == ArrayMax(a) - ArrayMin(a)

\* Float division x / y element by element: 0 / 0 is nan and x / 0 is
\* +-inf (numpy warns and goes on), otherwise the quotient.
Divide(x, y) ==
    IF y # 0 THEN [cls |-> "finite", num |-> x, den |-> y]
    ELSE IF x = 0 THEN [cls |-> "nan", num |-> 0, den |-> 0]
    ELSE [cls |-> "inf", num |-> x, den |-> 0]

\* (blob_image - blob_image.min()) / blob_image.ptp()
Normalize(a) ==
    [k \in 1..Len(a) |-> Divide(a[k] - ArrayMin(a), Ptp(a))]

BlobFrame ==
    UNCHANGED <<kernelVars, simNames, roiVars, braggVars, psVars, codeVars>>

\* blob_image = non_periodic.real
BindBlob ==
    /\ npc = "bind"
    /\ blob_image' = non_periodic
    /\ npc' = "normalize"
    /\ UNCHANGED non_periodic /\ BlobFrame

\* blob_image = (blob_image - blob_image.min()) / blob_image.ptp()
NormalizeBlob ==
    /\ npc = "normalize"
    /\ blob_image' = Normalize(blob_image)
    /\ npc' = "done"
    /\ UNCHANGED non_periodic /\ BlobFrame

InitBlob ==
    /\ files = {}
    /\ KernelIdle
    /\ BraggIdle
    /\ PsIdle
    /\ CodeIdle
    /\ npc = "bind"
    /\ non_periodic \in UNION {[1..n -> (-MaxVal)..MaxVal] : n \in 1..MaxLen}
    /\ blob_image = <<>>

NextBlob == BindBlob \/ NormalizeBlob

SpecBlob == InitBlob /\ [][NextBlob]_vars

(***************************************************************************)
(* Claims checked under SpecBlob                                           *)
(***************************************************************************)
\* v is a number, and 0 <= v <= 1 (the divisor is positive when finite and
\* the array is not constant).
InUnit(v) == v.cls = "finite" /\ v.den > 0 /\ 0 <= v.num /\ v.num <= v.den
IsZero(v) == v.cls = "finite" /\ v.num = 0
IsOne(v) == v.cls = "finite" /\ v.num = v.den

UnitRange ==
    /\ \A k \in 1..Len(blob_image) : InUnit(blob_image[k])
    /\ \E k \in 1..Len(blob_image) : IsZero(blob_image[k])
    /\ \E k \in 1..Len(blob_image) : IsOne(blob_image[k])

\* C8 as claimed: for every input array the normalised blob image lies in
\* [0, 1], with smallest element 0 and largest element 1.
C8_UnitRangeAlways == npc = "done" => UnitRange

\* C8 as amended: the same, for every input array that holds at least two
\* different values.
C8_UnitRangeUnlessConstant ==
    (npc = "done" /\ \E a, b \in 1..Len(non_periodic) :
                         non_periodic[a] # non_periodic[b])
        => UnitRange

C8_Witness ==
    /\ npc = "done"
    /\ Len(non_periodic) >= 3
    /\ ArrayMin(non_periodic) < 0 /\ ArrayMax(non_periodic) > 0
    /\ \E k \in 1..Len(blob_image) : ~IsZero(blob_image[k]) /\ ~IsOne(blob_image[k])


(***************************************************************************)
(* particlespy notebook: the segmentation parameters                       *)
(*                                                                         *)
(* ParticleSpy keeps the parameters of its segmentation GUI in the file    *)
(* parameters/parameters_current.hdf5 of the installed package: Update     *)
(* saves them there and parameters.load() reads them back. The file stays  *)
(* on disk from one kernel session to the next. A segmentation setting is  *)
(* a number of 0..MaxParam, 0 the default (Otsu threshold, no options).    *)
(***************************************************************************)
SegParams == 0..MaxParam

\* params.generate(): threshold='otsu', store_im=False
Generate == [segment |-> 0, store_im |-> FALSE]

\* parameters.save(), as the GUI calls it in kernel session n
Save(p, n) == [segment |-> p.segment, store_im |-> p.store_im, savedIn |-> n]

\* parameters.load()
Load(file) == [segment |-> file.segment, store_im |-> file.store_im]

\* params.store['store_im'] = True
SetStoreIm(p) == [p EXCEPT !.store_im = TRUE]

\* params.generate_eds(...) sets params.eds and leaves segment and store.
GenerateEds(p) == p

PsFrame ==
    UNCHANGED <<kernelVars, simNames, roiVars, braggVars, blobVars, codeVars>>

\* A fresh kernel opens the notebook; the file is what earlier sessions left.
PsStart ==
    /\ ppc \in {"off", "done", "traceback"}
    /\ psSession < MaxSessions
    /\ psSession' = psSession + 1
    /\ ppc' = "import_load"
    /\ params' = Unbound
    /\ gui' = [open |-> FALSE, segment |-> 0]
    /\ lastUpdate' = NoUpdate
    /\ analysed' = <<>>
    /\ UNCHANGED psFile
    /\ PsFrame

\* A statement that only moves on: it leaves params, the GUI and the file.
PsStep(at, next) ==
    /\ ppc = at
    /\ ppc' = next
    /\ UNCHANGED <<psSession, psFile, params, gui, lastUpdate, analysed>>
    /\ PsFrame

\* import ...; haadf = hs.load(filename); haadf.plot()
PsImportLoad == PsStep("import_load", "generate")

\* params = ps.parameters(); params.generate()
PsGenerate ==
    /\ ppc = "generate"
    /\ params' = Generate
    /\ ppc' = "show_segment"
    /\ UNCHANGED <<psSession, psFile, gui, lastUpdate, analysed>>
    /\ PsFrame

\* params.segment
PsShowSegment == PsStep("show_segment", "seg_ui")

\* ps.seg_ui(haadf): the window opens with the default settings.
PsSegUi ==
    /\ ppc = "seg_ui"
    /\ gui' = [open |-> TRUE, segment |-> Generate.segment]
    /\ ppc' = "gui"
    /\ UNCHANGED <<psSession, psFile, params, lastUpdate, analysed>>
    /\ PsFrame

\* "WARNING: Don't run this if on Google Cloud Platform!": the cell is
\* passed over.
PsSkipSegUi == PsStep("seg_ui", "load")

\* The user changes the threshold algorithm or the watershed options.
GuiSet(v) ==
    /\ ppc = "gui" /\ gui.open
    /\ gui.segment # v
    /\ gui' = [gui EXCEPT !.segment = v]
    /\ UNCHANGED <<psSession, psFile, ppc, params, lastUpdate, analysed>>
    /\ PsFrame

\* The user presses Update: the settings shown are saved to the file.
GuiUpdate ==
    /\ ppc = "gui" /\ gui.open
    /\ psFile' = Save([segment |-> gui.segment, store_im |-> Generate.store_im],
                      psSession)
    /\ lastUpdate' = [pressed |-> TRUE, segment |-> gui.segment]
    /\ UNCHANGED <<psSession, ppc, params, gui, analysed>>
    /\ PsFrame

\* The user closes the window and goes on to the next cell.
GuiClose ==
    /\ ppc = "gui" /\ gui.open
    /\ gui' = [gui EXCEPT !.open = FALSE]
    /\ ppc' = "load"
    /\ UNCHANGED <<psSession, psFile, params, lastUpdate, analysed>>
    /\ PsFrame

\* params.load()
PsLoad ==
    /\ ppc = "load"
    /\ params' = Load(psFile)
    /\ ppc' = "set_store"
    /\ UNCHANGED <<psSession, psFile, gui, lastUpdate, analysed>>
    /\ PsFrame

\* params.store['store_im'] = True
PsSetStore ==
    /\ ppc = "set_store"
    /\ params' = SetStoreIm(params)
    /\ ppc' = "process"
    /\ UNCHANGED <<psSession, psFile, gui, lastUpdate, analysed>>
    /\ PsFrame

\* seg = particlespy.segptcls.process(haadf,params)
PsProcess == PsStep("process", "analysis")

\* particles = ps.particle_analysis(haadf,params), and after it
\* particles2 = ps.particle_analysis(ac,params)
PsAnalysis(at, next) ==
    /\ ppc = at
    /\ analysed' = Append(analysed, params.store_im)
    /\ ppc' = next
    /\ UNCHANGED <<psSession, psFile, params, gui, lastUpdate>>
    /\ PsFrame

\* params.generate_eds(eds_method='CL',elements=['Si','O'], ...)
PsGenerateEds ==
    /\ ppc = "generate_eds"
    /\ params' = GenerateEds(params)
    /\ ppc' = "analysis_eds"
    /\ UNCHANGED <<psSession, psFile, gui, lastUpdate, analysed>>
    /\ PsFrame

\* A library call raises: the kernel prints the traceback and the rest of
\* the notebook is not run.
PsRaise ==
    /\ ppc \notin {"off", "gui", "done", "traceback"}
    /\ ppc' = "traceback"
    /\ UNCHANGED <<psSession, psFile, params, gui, lastUpdate, analysed>>
    /\ PsFrame

InitPs ==
    /\ files = {}
    /\ KernelIdle
    /\ BraggIdle
    /\ BlobIdle
    /\ CodeIdle
    /\ psSession = 0
    /\ psFile \in {Save([segment |-> v, store_im |-> Generate.store_im], 0) :
                     v \in SegParams}
    /\ ppc = "off" /\ params = Unbound
    /\ gui = [open |-> FALSE, segment |-> 0]
    /\ lastUpdate = NoUpdate /\ analysed = <<>>

NextPs ==
    \/ PsStart
    \/ PsImportLoad \/ PsGenerate \/ PsShowSegment
    \/ PsSegUi \/ PsSkipSegUi
    \/ \E v \in SegParams : GuiSet(v)
    \/ GuiUpdate \/ GuiClose
    \/ PsLoad \/ PsSetStore \/ PsProcess
    \/ PsAnalysis("analysis", "generate_eds")
    \/ PsGenerateEds
    \/ PsAnalysis("analysis_eds", "done")
    \/ PsRaise

SpecPs == InitPs /\ [][NextPs]_vars

(***************************************************************************)
(* Claims checked under SpecPs                                             *)
(***************************************************************************)
Loaded ==
    ppc \in {"set_store", "process", "analysis", "generate_eds",
             "analysis_eds", "done"}

\* C11: after params.load() the segmentation parameters of params are the
\* ones saved by the last Update pressed in the segmentation GUI of this
\* kernel session, in every run of the notebook, the runs that pass over the
\* seg_ui cell included; and params.store['store_im'] is True at every call
\* of particle_analysis.
C11_LoadedFromThisSession ==
    /\ Loaded =>
          /\ lastUpdate.pressed
          /\ params.segment = lastUpdate.segment
    /\ \A k \in 1..Len(analysed) : analysed[k] = TRUE

(***************************************************************************)
(* Every notebook, cell by cell: the names of the kernel namespace         *)
(*                                                                         *)
(* A statement is the pair <<names it reads, names it binds>>: an import   *)
(* or an assignment binds, a def binds the function's name, and a call of  *)
(* fft_display_values reads the names its body reads (np). A name an       *)
(* assignment reads on its right-hand side and binds on its left is read   *)
(* first. Magics (%matplotlib) read and bind nothing.                      *)
(***************************************************************************)
\* Names of the builtins module the cells read.
Builtins ==
    {"float", "iter", "len", "next", "print"}

\* src/unnamed/part_000, lines 1..448: one tuple of statements per code cell, each
\* statement <<names it reads, names it binds>>.
AtomsCode ==
    <<
      \* cell 1, lines 39..45
      <<<<{}, {"ab"}>>,
         <<{}, {"ase"}>>,
         <<{}, {"view"}>>,
         <<{}, {"np"}>>,
         <<{"ab", "print"}, {}>>>>,
      \* cell 2, lines 70..70
      <<>>,
      \* cell 3, lines 100..100
      <<>>,
      \* cell 4, lines 108..108
      <<>>,
      \* cell 5, lines 116..116
      <<>>,
      \* cell 6, lines 134..134
      <<>>,
      \* cell 7, lines 153..153
      <<>>,
      \* cell 8, lines 169..169
      <<>>,
      \* cell 9, lines 185..185
      <<>>,
      \* cell 10, lines 206..206
      <<>>,
      \* cell 11, lines 222..222
      <<>>,
      \* cell 12, lines 238..238
      <<>>,
      \* cell 13, lines 254..254
      <<>>,
      \* cell 14, lines 262..262
      <<>>,
      \* cell 15, lines 280..280
      <<>>,
      \* cell 16, lines 300..300
      <<>>,
      \* cell 17, lines 316..316
      <<>>,
      \* cell 18, lines 344..344
      <<>>,
      \* cell 19, lines 360..360
      <<>>,
      \* cell 20, lines 376..376
      <<>>,
      \* cell 21, lines 392..392
      <<>>,
      \* cell 22, lines 408..408
      <<>>,
      \* cell 23, lines 424..424
      <<>>
    >>

\* src/abtem/image_simulation_with_abtem_completed.ipynb, lines 1..827: one tuple of statements per code cell, each
\* statement <<names it reads, names it binds>>.
SimCode ==
    <<
      \* cell 1, lines 38..45
      <<<<{}, {"ab"}>>,
         <<{}, {"ase"}>>,
         <<{}, {"np"}>>,
         <<{}, {"plt"}>>,
         <<{"ab", "print"}, {}>>>>,
      \* cell 2, lines 65..65
      <<<<{"ase"}, {"atoms"}>>>>,
      \* cell 3, lines 88..88
      <<<<{"ab", "atoms"}, {"potential"}>>>>,
      \* cell 4, lines 106..106
      <<<<{"potential"}, {"potential_array"}>>>>,
      \* cell 5, lines 124..125
      <<<<{"potential_array"}, {"potential_signal"}>>,
         <<{"potential_signal"}, {}>>>>,
      \* cell 6, lines 143..143
      <<<<{"potential_signal"}, {}>>>>,
      \* cell 7, lines 162..164
      <<<<{"np"}, {"complex_array"}>>,
         <<{"ab", "complex_array"}, {"waves"}>>>>,
      \* cell 8, lines 182..182
      <<<<{"complex_array", "waves"}, {}>>>>,
      \* cell 9, lines 200..204
      <<<<{"print", "waves"}, {}>>,
         <<{"print", "waves"}, {}>>,
         <<{"print", "waves"}, {}>>>>,
      \* cell 10, lines 222..222
      <<<<{"print", "waves"}, {}>>>>,
      \* cell 11, lines 278..282
      <<<<{"ab"}, {"probe"}>>,
         <<{"potential", "probe"}, {}>>>>,
      \* cell 12, lines 300..301
      <<<<{"plt"}, {}>>,
         <<{"probe"}, {}>>>>,
      \* cell 13, lines 319..319
      <<<<{"probe"}, {"probe_waves"}>>>>,
      \* cell 14, lines 337..338
      <<<<{"probe_waves"}, {}>>,
         <<{"probe_waves"}, {}>>>>,
      \* cell 15, lines 357..359
      <<<<{}, {"position"}>>,
         <<{"position", "potential", "probe"}, {"exit_wave"}>>>>,
      \* cell 16, lines 377..378
      <<<<{"exit_wave"}, {}>>,
         <<{"exit_wave"}, {}>>>>,
      \* cell 17, lines 398..408
      <<<<{}, {"measurements"}>>,
         <<{"position", "probe"}, {"probe_wave"}>>,
         <<{"measurements", "potential", "probe_wave"}, {"potential_slice", "probe_exit_wave"}>>,
         <<{"ab", "measurements"}, {"measurements"}>>>>,
      \* cell 18, lines 426..432
      <<<<{"measurements"}, {"hs_signal"}>>,
         <<{"hs_signal"}, {}>>,
         <<{"hs_signal", "potential"}, {}>>,
         <<{"hs_signal"}, {}>>,
         <<{"hs_signal"}, {}>>>>,
      \* cell 19, lines 442..442
      <<<<{"hs_signal"}, {}>>>>,
      \* cell 20, lines 464..464
      <<<<{"ab", "potential", "probe"}, {"scan"}>>>>,
      \* cell 21, lines 492..496
      <<<<{"ab"}, {"bf_detector"}>>,
         <<{"ab"}, {"maadf_detector"}>>,
         <<{"ab"}, {"haadf_detector"}>>,
         <<{"haadf_detector", "probe"}, {}>>>>,
      \* cell 22, lines 514..519
      <<<<{"bf_detector", "haadf_detector", "maadf_detector", "potential", "probe", "scan"}, {"scanned_measurements"}>>,
         <<{"scanned_measurements"}, {"bf", "haadf", "maadf"}>>>>,
      \* cell 23, lines 537..537
      <<<<{"haadf"}, {}>>>>,
      \* cell 24, lines 557..559
      <<<<{"scanned_measurements"}, {"interpolated_haadf"}>>,
         <<{"interpolated_haadf"}, {}>>>>,
      \* cell 25, lines 588..588
      <<<<{"ab", "atoms"}, {"frozen_phonons"}>>>>,
      \* cell 26, lines 606..608
      <<<<{"frozen_phonons", "iter", "next"}, {"config"}>>,
         <<{"ab", "config"}, {}>>>>,
      \* cell 27, lines 626..626
      <<<<{"ab", "frozen_phonons"}, {"frozen_phonon_potential"}>>>>,
      \* cell 28, lines 644..648
      <<<<{"ab"}, {"frozen_phonon_probe"}>>,
         <<{"frozen_phonon_potential", "frozen_phonon_probe"}, {}>>,
         <<{"frozen_phonon_potential", "frozen_phonon_probe"}, {"exit_wave"}>>>>,
      \* cell 29, lines 666..666
      <<<<{"exit_wave"}, {}>>>>,
      \* cell 30, lines 684..684
      <<<<{"exit_wave"}, {}>>>>,
      \* cell 31, lines 713..717
      <<<<{}, {"read"}>>,
         <<{"read"}, {"cluster"}>>,
         <<{"cluster", "len", "np", "print"}, {}>>>>,
      \* cell 32, lines 737..737
      <<<<{"ab"}, {"S"}>>>>,
      \* cell 33, lines 755..761
      <<<<{"ab", "cluster"}, {"cluster_potential"}>>,
         <<{"S", "ab", "cluster_potential"}, {"cluster_scan"}>>,
         <<{"ab"}, {"maadf_detector"}>>>>,
      \* cell 34, lines 779..782
      <<<<{"S", "cluster_potential", "cluster_scan", "maadf_detector"}, {"cluster_maadf"}>>>>,
      \* cell 35, lines 802..802
      <<<<{"cluster_maadf"}, {}>>>>
    >>

\* src/abtem/image_simulation_with_abtem_completed.ipynb, lines 829..1512: one tuple of statements per code cell, each
\* statement <<names it reads, names it binds>>.
AnalysisCode ==
    <<
      \* cell 1, lines 862..872
      <<<<{}, {"ab"}>>,
         <<{}, {"cut_rectangle"}>>,
         <<{}, {"poisson_noise"}>>,
         <<{}, {"ase"}>>,
         <<{}, {"plt"}>>,
         <<{}, {"np"}>>,
         <<{}, {"scipy"}>>,
         <<{}, {"skimage"}>>>>,
      \* cell 2, lines 895..899
      <<<<{"ase"}, {"graphene"}>>,
         <<{"graphene"}, {}>>,
         <<{"cut_rectangle", "graphene"}, {"graphene"}>>>>,
      \* cell 3, lines 915..919
      <<<<{"graphene"}, {"defect_graphene"}>>,
         <<{"defect_graphene", "len", "np"}, {}>>,
         <<{"ab", "defect_graphene"}, {}>>>>,
      \* cell 4, lines 936..938
      <<<<{"ab"}, {"wave"}>>,
         <<{"defect_graphene", "wave"}, {"exit_wave"}>>>>,
      \* cell 5, lines 954..954
      <<<<{"exit_wave"}, {}>>>>,
      \* cell 6, lines 978..982
      <<<<{}, {"Cs"}>>,
         <<{"Cs", "ab", "wave"}, {"defocus"}>>,
         <<{"defocus", "print"}, {}>>>>,
      \* cell 7, lines 1006..1011
      <<<<{}, {"objective_aperture"}>>,
         <<{"Cs", "ab", "defocus", "objective_aperture", "wave"}, {"ctf"}>>,
         <<{"plt"}, {}>>,
         <<{"ctf"}, {}>>>>,
      \* cell 8, lines 1027..1030
      <<<<{"ctf"}, {}>>,
         <<{"plt"}, {}>>,
         <<{"ctf"}, {"ax"}>>>>,
      \* cell 9, lines 1054..1055
      <<<<{"ctf", "exit_wave"}, {"intensity"}>>,
         <<{"intensity"}, {}>>>>,
      \* cell 10, lines 1078..1079
      <<<<{"intensity"}, {"cropped"}>>,
         <<{"cropped"}, {}>>>>,
      \* cell 11, lines 1095..1098
      <<<<{}, {"dose"}>>,
         <<{"cropped", "dose", "poisson_noise"}, {"noisy"}>>,
         <<{"noisy"}, {}>>>>,
      \* cell 12, lines 1114..1117
      <<<<{"noisy"}, {"image"}>>,
         <<{"plt"}, {}>>,
         <<{"image", "plt"}, {}>>>>,
      \* cell 13, lines 1158..1158
      <<<<{"image", "np"}, {"f"}>>>>,
      \* cell 14, lines 1174..1178
      <<<<{}, {"fft_display_values"}>>,
         <<{"plt"}, {}>>,
         <<{"f", "fft_display_values", "np", "plt"}, {}>>>>,
      \* cell 15, lines 1198..1207
      <<<<{}, {"scipy"}>>,
         <<{"image", "scipy"}, {"hanning_x"}>>,
         <<{"image", "scipy"}, {"hanning_y"}>>,
         <<{"hanning_x", "hanning_y", "np"}, {"hanning_window"}>>,
         <<{"plt"}, {}>>,
         <<{"hanning_window", "plt"}, {}>>,
         <<{"plt"}, {}>>>>,
      \* cell 16, lines 1223..1226
      <<<<{"hanning_window", "image", "np"}, {"f"}>>,
         <<{"plt"}, {}>>,
         <<{"f", "fft_display_values", "np", "plt"}, {}>>>>,
      \* cell 17, lines 1244..1244
      <<<<{"f", "np", "skimage"}, {"coordinates"}>>>>,
      \* cell 18, lines 1260..1262
      <<<<{"plt"}, {}>>,
         <<{"f", "fft_display_values", "np", "plt"}, {}>>,
         <<{"coordinates", "plt"}, {}>>>>,
      \* cell 19, lines 1278..1282
      <<<<{"coordinates"}, {"selected_coordinates"}>>,
         <<{"plt"}, {}>>,
         <<{"f", "fft_display_values", "np", "plt"}, {}>>,
         <<{"plt", "selected_coordinates"}, {}>>>>,
      \* cell 20, lines 1309..1314
      <<<<{"f", "float", "np"}, {"delta_mask"}>>,
         <<{"delta_mask", "selected_coordinates"}, {}>>,
         <<{"plt"}, {}>>,
         <<{"delta_mask", "plt"}, {}>>>>,
      \* cell 21, lines 1330..1333
      <<<<{"float", "skimage"}, {"disk"}>>,
         <<{"plt"}, {}>>,
         <<{"disk", "plt"}, {}>>>>,
      \* cell 22, lines 1349..1352
      <<<<{"delta_mask", "disk", "scipy"}, {"mask"}>>,
         <<{"plt"}, {}>>,
         <<{"mask", "plt"}, {}>>>>,
      \* cell 23, lines 1377..1377
      <<<<{"image", "mask", "np"}, {"filtered"}>>>>,
      \* cell 24, lines 1393..1394
      <<<<{"plt"}, {}>>,
         <<{"filtered", "plt"}, {}>>>>,
      \* cell 25, lines 1410..1413
      <<<<{"filtered", "image"}, {"non_periodic"}>>,
         <<{"plt"}, {}>>,
         <<{"non_periodic", "plt"}, {}>>>>,
      \* cell 26, lines 1433..1435
      <<<<{"non_periodic"}, {"blob_image"}>>,
         <<{"blob_image"}, {"blob_image"}>>>>,
      \* cell 27, lines 1451..1456
      <<<<{"blob_image", "skimage"}, {"blobs_log"}>>>>,
      \* cell 28, lines 1472..1474
      <<<<{"plt"}, {}>>,
         <<{"non_periodic", "plt"}, {}>>,
         <<{"blobs_log", "plt"}, {}>>>>
    >>

\* src/unnamed/part_001, lines 1..975: one tuple of statements per code cell, each
\* statement <<names it reads, names it binds>>.
PyxemCode ==
    <<
      \* cell 1, lines 62..63
      <<>>,
      \* cell 2, lines 74..77
      <<<<{}, {"hs"}>>,
         <<{}, {"pxm"}>>,
         <<{}, {"np"}>>>>,
      \* cell 3, lines 107..107
      <<<<{"hs"}, {"dp"}>>>>,
      \* cell 4, lines 123..123
      <<<<{"dp"}, {}>>>>,
      \* cell 5, lines 139..139
      <<<<{"dp"}, {}>>>>,
      \* cell 6, lines 155..155
      <<<<{"dp"}, {}>>>>,
      \* cell 7, lines 171..171
      <<<<{"dp"}, {}>>>>,
      \* cell 8, lines 187..187
      <<<<{"dp"}, {}>>>>,
      \* cell 9, lines 203..207
      <<<<{"dp"}, {}>>>>,
      \* cell 10, lines 223..223
      <<<<{"dp"}, {}>>>>,
      \* cell 11, lines 239..240
      <<<<{"dp"}, {}>>,
         <<{"dp"}, {}>>>>,
      \* cell 12, lines 249..249
      <<<<{"dp"}, {}>>>>,
      \* cell 13, lines 265..265
      <<<<{"dp"}, {}>>>>,
      \* cell 14, lines 295..298
      <<<<{"dp", "np"}, {}>>>>,
      \* cell 15, lines 307..307
      <<<<{"dp"}, {}>>>>,
      \* cell 16, lines 323..326
      <<<<{"dp"}, {}>>>>,
      \* cell 17, lines 335..335
      <<<<{"dp"}, {}>>>>,
      \* cell 18, lines 351..354
      <<<<{"dp"}, {"dpm"}>>,
         <<{"dpm"}, {}>>,
         <<{"hs"}, {"line"}>>,
         <<{"dpm", "line"}, {}>>>>,
      \* cell 19, lines 363..364
      <<<<{"dpm", "line"}, {"trace"}>>,
         <<{"trace"}, {}>>>>,
      \* cell 20, lines 373..374
      <<<<{"np"}, {"recip_d111"}>>,
         <<{"recip_d111"}, {"recip_cal"}>>>>,
      \* cell 21, lines 390..391
      <<<<{"dp", "recip_cal"}, {}>>,
         <<{"dp"}, {}>>>>,
      \* cell 22, lines 407..407
      <<<<{"dp"}, {}>>>>,
      \* cell 23, lines 444..444
      <<<<{"hs"}, {"roi"}>>>>,
      \* cell 24, lines 453..453
      <<<<{"dp", "roi"}, {}>>>>,
      \* cell 25, lines 469..469
      <<<<{"dp", "roi"}, {"vdf"}>>>>,
      \* cell 26, lines 489..489
      <<<<{"vdf"}, {}>>>>,
      \* cell 27, lines 505..505
      <<<<{"vdf"}, {}>>>>,
      \* cell 28, lines 521..522
      <<<<{"vdf"}, {}>>,
         <<{"vdf"}, {}>>>>,
      \* cell 29, lines 545..545
      <<<<{}, {"VirtualImageGenerator"}>>>>,
      \* cell 30, lines 561..561
      <<<<{"VirtualImageGenerator", "dp"}, {"vdfgen"}>>>>,
      \* cell 31, lines 577..579
      <<<<{"vdfgen"}, {"vdfs"}>>>>,
      \* cell 32, lines 595..595
      <<<<{"vdfs"}, {}>>>>,
      \* cell 33, lines 611..612
      <<<<{"vdfs"}, {}>>,
         <<{"vdfs"}, {}>>>>,
      \* cell 34, lines 635..637
      <<<<{"hs"}, {"reg"}>>,
         <<{"dp"}, {}>>,
         <<{"dp", "reg"}, {}>>>>,
      \* cell 35, lines 653..653
      <<<<{"dp", "reg"}, {"dpc"}>>>>,
      \* cell 36, lines 669..669
      <<<<{"dpc"}, {"dpcm"}>>>>,
      \* cell 37, lines 685..685
      <<<<{"dpcm"}, {}>>>>,
      \* cell 38, lines 716..717
      <<<<{"dpc"}, {}>>,
         <<{"dpc"}, {}>>>>,
      \* cell 39, lines 733..733
      <<<<{"dpc"}, {}>>>>,
      \* cell 40, lines 749..749
      <<<<{"dpc"}, {}>>>>,
      \* cell 41, lines 765..765
      <<<<{"dpc"}, {}>>>>,
      \* cell 42, lines 781..781
      <<<<{"dpc"}, {}>>>>,
      \* cell 43, lines 813..819
      <<<<{"dpc"}, {"peaks"}>>>>,
      \* cell 44, lines 835..835
      <<<<{"peaks"}, {}>>>>,
      \* cell 45, lines 851..853
      <<<<{"peaks", "print"}, {}>>,
         <<{"print"}, {}>>,
         <<{"peaks", "print"}, {}>>>>
    >>

\* src/particlespy_demo/particlespy_filled_2022.ipynb, lines 1..615: one tuple of statements per code cell, each
\* statement <<names it reads, names it binds>>.
PsCode ==
    <<
      \* cell 1, lines 49..58
      <<<<{}, {"hs"}>>,
         <<{}, {"ps"}>>,
         <<{}, {"tp"}>>,
         <<{}, {"plt"}>>,
         <<{}, {"filename"}>>,
         <<{"filename", "hs"}, {"haadf"}>>,
         <<{"haadf"}, {}>>>>,
      \* cell 2, lines 74..75
      <<<<{"ps"}, {"params"}>>,
         <<{"params"}, {}>>>>,
      \* cell 3, lines 91..91
      <<<<{"params"}, {}>>>>,
      \* cell 4, lines 113..113
      <<<<{"haadf", "ps"}, {}>>>>,
      \* cell 5, lines 137..138
      <<<<{"params"}, {}>>,
         <<{"params"}, {}>>>>,
      \* cell 6, lines 154..157
      <<<<{}, {"particlespy"}>>,
         <<{"haadf", "params", "particlespy"}, {"seg"}>>,
         <<{"plt"}, {}>>,
         <<{"plt", "seg"}, {}>>>>,
      \* cell 7, lines 173..173
      <<<<{"haadf", "params", "ps"}, {"particles"}>>>>,
      \* cell 8, lines 193..193
      <<<<{"particles", "print"}, {}>>>>,
      \* cell 9, lines 217..217
      <<<<{"particles"}, {}>>>>,
      \* cell 10, lines 233..233
      <<<<{"particles"}, {}>>>>,
      \* cell 11, lines 268..269
      <<<<{}, {"eds_filename"}>>,
         <<{"eds_filename", "hs"}, {"eds"}>>>>,
      \* cell 12, lines 293..293
      <<<<{"eds", "haadf"}, {"ac"}>>>>,
      \* cell 13, lines 317..317
      <<<<{"params"}, {}>>>>,
      \* cell 14, lines 341..341
      <<<<{"ac", "params", "ps"}, {"particles2"}>>>>,
      \* cell 15, lines 365..365
      <<<<{"particles2"}, {}>>>>,
      \* cell 16, lines 389..389
      <<<<{"particles2"}, {}>>>>,
      \* cell 17, lines 405..405
      <<<<{"particles2", "ps"}, {"rp"}>>>>,
      \* cell 18, lines 414..414
      <<<<{"particles2", "ps"}, {"rp2"}>>>>,
      \* cell 19, lines 437..437
      <<<<{"hs"}, {"series"}>>>>,
      \* cell 20, lines 446..446
      <<<<{"series"}, {}>>>>,
      \* cell 21, lines 462..462
      <<<<{"ps"}, {"params_series"}>>>>,
      \* cell 22, lines 471..471
      <<<<{"params_series"}, {}>>>>,
      \* cell 23, lines 487..487
      <<<<{"params_series", "ps", "series"}, {"particles_series"}>>>>,
      \* cell 24, lines 496..496
      <<<<{"particles_series"}, {}>>>>,
      \* cell 25, lines 512..512
      <<<<{"particles_series", "ps"}, {"series_test"}>>>>,
      \* cell 26, lines 535..536
      <<<<{"plt"}, {}>>,
         <<{"series_test", "tp"}, {}>>>>,
      \* cell 27, lines 552..553
      <<<<{"series_test", "tp"}, {"drift"}>>,
         <<{"drift"}, {}>>>>,
      \* cell 28, lines 562..563
      <<<<{"drift", "series_test", "tp"}, {"tm"}>>,
         <<{"tm", "tp"}, {}>>>>,
      \* cell 29, lines 579..582
      <<<<{}, {"plt"}>>,
         <<{"plt"}, {}>>,
         <<{"plt", "tm"}, {"index", "particle"}>>>>,
      \* cell 30, lines 590..590
      <<>>
    >>

CodeNotebooks == {"atoms", "sim", "analysis", "pyxem", "particlespy"}

Code(n) ==
    CASE n = "atoms" -> AtomsCode
      [] n = "sim" -> SimCode
      [] n = "analysis" -> AnalysisCode
      [] n = "pyxem" -> PyxemCode
      [] n = "particlespy" -> PsCode

Reads(st) == st[1]
Binds(st) == st[2]

\* The kernel resolves a name in the namespace, then in builtins; a name in
\* neither is a NameError.
Resolves(st, ns) == Reads(st) \subseteq (ns \cup Builtins)

\* Top to bottom: the code cell run after the i-th.
NextCodeCellSkip(i) == i + 2
NextCodeCell(i) == i + 1

CodeFrame ==
    UNCHANGED <<kernelVars, simNames, roiVars, braggVars, blobVars, psVars>>

CodeDone == cnb # "none" /\ cell > Len(Code(cnb))

\* A fresh kernel opens a notebook: the namespace holds nothing of the
\* notebooks run before.
OpenNotebook(n) ==
    /\ cnb = "none" \/ CodeDone \/ nameError
    /\ cnb' = n
    /\ cell' = 1
    /\ stmt_ix' = 1
    /\ namespace' = {}
    /\ nameError' = FALSE
    /\ CodeFrame

\* The next statement of the cell.
RunStatement ==
    /\ cnb # "none" /\ ~nameError
    /\ cell <= Len(Code(cnb))
    /\ stmt_ix <= Len(Code(cnb)[cell])
    /\ LET st == Code(cnb)[cell][stmt_ix]
       IN  IF Resolves(st, namespace)
             THEN /\ namespace' = namespace \cup Binds(st)
                  /\ stmt_ix' = stmt_ix + 1
                  /\ UNCHANGED nameError
             ELSE /\ nameError' = TRUE
                  /\ UNCHANGED <<namespace, stmt_ix>>
    /\ UNCHANGED <<cnb, cell>>
    /\ CodeFrame

\* The cell has run to its end (at once when its source is empty): the
\* user runs the next one.
RunNextCell ==
    /\ cnb # "none" /\ ~nameError
    /\ cell <= Len(Code(cnb))
    /\ stmt_ix > Len(Code(cnb)[cell])
    /\ cell' = NextCodeCell(cell)
    /\ stmt_ix' = 1
    /\ UNCHANGED <<cnb, namespace, nameError>>
    /\ CodeFrame

InitCode ==
    /\ files = {}
    /\ KernelIdle
    /\ BraggIdle
    /\ BlobIdle
    /\ PsIdle
    /\ CodeIdle

NextCode ==
    \/ \E n \in CodeNotebooks : OpenNotebook(n)
    \/ RunStatement
    \/ RunNextCell

SpecCode == InitCode /\ [][NextCode]_vars

(***************************************************************************)
(* Claims checked under SpecCode                                           *)
(***************************************************************************)
AtStatement ==
    /\ cnb # "none"
    /\ cell <= Len(Code(cnb))
    /\ stmt_ix <= Len(Code(cnb)[cell])

\* C12: in a top-to-bottom run of a notebook every name the next statement
\* reads is a builtin or is already in the namespace, bound by an earlier
\* statement of the same cell or by an earlier cell of the same notebook
\* (the namespace starts empty, so never by another notebook): no statement
\* ends in a NameError.
C12_BoundBeforeUse ==
    /\ ~nameError
    /\ AtStatement => Resolves(Code(cnb)[cell][stmt_ix], namespace)

\* The image-analysis notebook has run to its end, the cells that call the
\* helper fft_display_values included.
C12_Witness ==
    /\ cnb = "analysis" /\ CodeDone
    /\ "fft_display_values" \in namespace

====
